---- MODULE Spec2Model ----
(***************************************************************************)
(* Model of pkg/model/api_loadbalancer.go: APILoadBalancerBuilder.Build    *)
(* and chooseBestSubnetForELB, the builder of the API load balancer, its   *)
(* security group, its rules and the master attachments.                   *)
(*                                                                         *)
(* Go pointers to string, int64 and LoadBalancerSpec are modelled as       *)
(* options: the empty sequence is nil, <<v>> points at v.  Subnet names    *)
(* are sequences of byte values so that Go's string comparison (<) is      *)
(* computed byte by byte; all other strings are TLA+ strings.              *)
(***************************************************************************)
EXTENDS Integers, Sequences, FiniteSets, TLC

VARIABLES
    useLoadBalancerForAPI,  \* result of b.UseLoadBalancerForAPI()
    lbSpec,                 \* b.Cluster.Spec.API.LoadBalancer (option)
    Subnets,                \* b.Cluster.Spec.Subnets
    KubernetesAPIAccess,    \* b.Cluster.Spec.KubernetesAPIAccess
    masterInstanceGroups,   \* result of b.MasterInstanceGroups()
    pc,                     \* position of Build
    idx,                    \* index of the running for loop
    subnetsByZone,          \* local map zone -> candidate subnets
    pendingZones,           \* keys of subnetsByZone the range has not visited yet
    elbSubnets,             \* local slice of subnet links
    tasks,                  \* the tasks added to the ModelBuilderContext, in order
    err,                    \* the error Build returned (option)
    pass,                   \* 1: first Build pass, 2: the pass run again
    prev                    \* outcome of the first pass, kept for comparison

vars == <<useLoadBalancerForAPI, lbSpec, Subnets, KubernetesAPIAccess,
          masterInstanceGroups, pc, idx, subnetsByZone, pendingZones,
          elbSubnets, tasks, err, pass, prev>>

inputs == <<useLoadBalancerForAPI, lbSpec, Subnets, masterInstanceGroups>>

locals == <<idx, subnetsByZone, pendingZones, elbSubnets>>

-----------------------------------------------------------------------------
(* Bounds of the model *)

MaxSubnets == 3

MaxCIDRs == 2

MaxInstanceGroups == 2

-----------------------------------------------------------------------------
(* Values of the kops API *)

LoadBalancerTypePublic == "Public"

LoadBalancerTypeInternal == "Internal"

SubnetTypePublic == "Public"

SubnetTypePrivate == "Private"

SubnetTypeUtility == "Utility"

InstanceGroupRoleMaster == "master"

LoadBalancerDefaultIdleTimeout == 300

HTTPSPort == 443

HealthCheckTimeout == 5

HealthCheckInterval == 10

HealthCheckThreshold == 2

nil == <<>>

s(v) == <<v>>

i64(v) == <<v>>

ClusterName == "k8s.example.com"

-----------------------------------------------------------------------------
(* Input domains *)

NameA == <<65>>

NameB == <<66>>

NameAB == <<65, 66>>

SubnetNames == {NameA, NameB, NameAB}

Zones == {"us-east-1a", "us-east-1b"}

SubnetTypes == {SubnetTypePublic, SubnetTypeUtility, SubnetTypePrivate, "Bogus"}

LoadBalancerTypes == {LoadBalancerTypePublic, LoadBalancerTypeInternal, "Bogus"}

CIDRs == {"10.0.0.0/8", "192.168.1.0/24"}

InstanceGroupNames == {"master-a", "master-b", "master-c"}

Range(q) == {q[k] : k \in DOMAIN q}

SeqsUpTo(S, n) == UNION {[1..k -> S] : k \in 0..n}

Injective(q) == \A a, b \in DOMAIN q : a # b => q[a] # q[b]

PermutationsOf(q) ==
    {p \in [DOMAIN q -> Range(q)] :
        \E f \in [DOMAIN q -> DOMAIN q] :
            /\ Injective(f)
            /\ \A k \in DOMAIN q : p[k] = q[f[k]]}

SubnetSpecs == [Name : SubnetNames, Zone : Zones, Type : SubnetTypes]

\* Subnet names are unique in a cluster.
SubnetLists ==
    {l \in SeqsUpTo(SubnetSpecs, MaxSubnets) :
        \A a, b \in DOMAIN l : a # b => l[a].Name # l[b].Name}

\* Instance group names are unique in a cluster.
InstanceGroupLists(subnetChoices) ==
    {l \in SeqsUpTo([Name : InstanceGroupNames, Subnets : subnetChoices],
                    MaxInstanceGroups) :
        \A a, b \in DOMAIN l : a # b => l[a].Name # l[b].Name}

LoadBalancerSpecs(timeouts) ==
    {nil} \cup {s(r) : r \in [Type : LoadBalancerTypes, IdleTimeoutSeconds : timeouts]}

ScenarioSubnets ==
    << [Name |-> NameA, Zone |-> "us-east-1a", Type |-> SubnetTypeUtility],
       [Name |-> NameB, Zone |-> "us-east-1a", Type |-> SubnetTypePublic] >>

ScenarioInstanceGroups == << [Name |-> "master-a", Subnets |-> <<NameB>>] >>

-----------------------------------------------------------------------------
(* Helpers of KopsModelContext and ModelBuilderContext *)

UseLoadBalancerForAPI == useLoadBalancerForAPI

MasterInstanceGroups == masterInstanceGroups

LinkToSubnet(subnet) == [Kind |-> "Subnet", Name |-> subnet.Name]

LinkToELBSecurityGroup(prefix) ==
    [Kind |-> "SecurityGroup", Name |-> prefix \o "-elb." \o ClusterName]

LinkToSecurityGroup(role) ==
    [Kind |-> "SecurityGroup", Name |-> role \o "s." \o ClusterName]

LinkToELB(prefix) == [Kind |-> "LoadBalancer", Name |-> prefix \o "." \o ClusterName]

LinkToAutoscalingGroup(ig) ==
    [Kind |-> "AutoscalingGroup", Name |-> ig.Name \o "." \o ClusterName]

LinkToVPC == [Kind |-> "VPC", Name |-> ClusterName]

ELBSecurityGroupName(prefix) == prefix \o "-elb." \o ClusterName

GetELBName32(prefix) == prefix \o "-" \o ClusterName

AddTask(collection, task) == Append(collection, task)

-----------------------------------------------------------------------------
(* ByScoreDescending and sort.Sort *)

\* Go's < on strings: byte-wise lexical order, a proper prefix is smaller.
RECURSIVE StringLess(_, _)
StringLess(a, b) ==
    IF b = <<>> THEN FALSE
    ELSE IF a = <<>> THEN TRUE
    ELSE IF Head(a) # Head(b) THEN Head(a) < Head(b)
    ELSE StringLess(Tail(a), Tail(b))

LessIgnoringName(x, y) ==
    IF x.score # y.score THEN ~(x.score < y.score) ELSE FALSE

LessAscending(x, y) ==
    IF x.score # y.score THEN x.score < y.score
    ELSE StringLess(x.subnet.Name, y.subnet.Name)

Less(x, y) ==
    IF x.score # y.score
    THEN ~(x.score < y.score)
    ELSE StringLess(x.subnet.Name, y.subnet.Name)

Swap(a, i, j) == [a EXCEPT ![i] = a[j], ![j] = a[i]]

\* Inner loop of insertion sort: for j := i; j > a && Less(j, j-1); j-- { Swap }
RECURSIVE Sink(_, _)
Sink(a, j) ==
    IF j > 1 /\ Less(a[j], a[j - 1]) THEN Sink(Swap(a, j, j - 1), j - 1) ELSE a

RECURSIVE InsertionSort(_, _)
InsertionSort(a, i) ==
    IF i > Len(a) THEN a ELSE InsertionSort(Sink(a, i), i + 1)

\* sort.Sort on fewer than 7 elements is an insertion sort.
Sort(a) == InsertionSort(a, 2)

-----------------------------------------------------------------------------
(* chooseBestSubnetForELB *)

migSubnets == UNION {Range(ig.Subnets) : ig \in Range(MasterInstanceGroups)}

Score(subnet) ==
    (IF subnet.Name \in migSubnets THEN 1 ELSE 0)
    + (IF subnet.Type = SubnetTypeUtility THEN 1 ELSE 0)

scoredSubnets(subnets) ==
    [k \in DOMAIN subnets |-> [score |-> Score(subnets[k]), subnet |-> subnets[k]]]

chooseBestSubnetForELB(zone, subnets) ==
    IF Len(subnets) = 0 THEN nil
    ELSE IF Len(subnets) = 1 THEN subnets[1]
    ELSE Sort(scoredSubnets(subnets))[1].subnet

-----------------------------------------------------------------------------
(* The pieces of Build *)

RequestedIgnoringFlag == lbSpec # nil

\* The two guards at the top of Build.
Requested == UseLoadBalancerForAPI /\ lbSpec # nil

HandledAnyType(type) == TRUE

\* switch lbSpec.Type: the types Build handles.
HandledLoadBalancerType(type) ==
    type \in {LoadBalancerTypeInternal, LoadBalancerTypePublic}

SubnetCaseSkippingUnknown(subnet, lbType) ==
    CASE subnet.Type \in {SubnetTypePublic, SubnetTypeUtility} ->
            IF lbType # LoadBalancerTypePublic THEN "continue" ELSE "append"
      [] subnet.Type = SubnetTypePrivate ->
            IF lbType # LoadBalancerTypeInternal THEN "continue" ELSE "append"
      [] OTHER -> "continue"

SubnetCaseUnfiltered(subnet, lbType) ==
    CASE subnet.Type \in {SubnetTypePublic, SubnetTypeUtility, SubnetTypePrivate} -> "append"
      [] OTHER -> "error"

\* switch subnet.Type in the partition loop: "append", "continue" or "error".
SubnetCase(subnet, lbType) ==
    CASE subnet.Type \in {SubnetTypePublic, SubnetTypeUtility} ->
            IF lbType # LoadBalancerTypePublic THEN "continue" ELSE "append"
      [] subnet.Type = SubnetTypePrivate ->
            IF lbType # LoadBalancerTypeInternal THEN "continue" ELSE "append"
      [] OTHER -> "error"

\* subnetsByZone[subnet.Zone] = append(subnetsByZone[subnet.Zone], subnet)
AppendToZone(byZone, subnet) ==
    IF subnet.Zone \in DOMAIN byZone
    THEN [byZone EXCEPT ![subnet.Zone] = Append(@, subnet)]
    ELSE [z \in DOMAIN byZone \cup {subnet.Zone} |->
            IF z = subnet.Zone THEN <<subnet>> ELSE byZone[z]]

IdleTimeout(spec) ==
    IF spec.IdleTimeoutSeconds # nil
    THEN spec.IdleTimeoutSeconds[1]
    ELSE LoadBalancerDefaultIdleTimeout

Scheme(type) == IF type = LoadBalancerTypeInternal THEN s("internal") ELSE nil

LoadBalancer(spec, subnetLinks) ==
    [ Task               |-> "LoadBalancer",
      Name               |-> s("api." \o ClusterName),
      LoadBalancerName   |-> s(GetELBName32("api")),
      SecurityGroups     |-> <<LinkToELBSecurityGroup("api")>>,
      Subnets            |-> subnetLinks,
      Listeners          |-> [port \in {"443"} |-> [InstancePort |-> HTTPSPort]],
      HealthCheck        |-> [ Target             |-> s("TCP:443"),
                               Timeout            |-> i64(HealthCheckTimeout),
                               Interval           |-> i64(HealthCheckInterval),
                               HealthyThreshold   |-> i64(HealthCheckThreshold),
                               UnhealthyThreshold |-> i64(HealthCheckThreshold) ],
      ConnectionSettings |-> [IdleTimeout |-> i64(IdleTimeout(spec))],
      Scheme             |-> Scheme(spec.Type) ]

SecurityGroup ==
    [ Task             |-> "SecurityGroup",
      Name             |-> s(ELBSecurityGroupName("api")),
      VPC              |-> LinkToVPC,
      Description      |-> s("Security group for api ELB"),
      RemoveExtraRules |-> <<"port=443">> ]

\* A SecurityGroupRule with every field nil.
SecurityGroupRule ==
    [ Task          |-> "SecurityGroupRule",
      Name          |-> nil,
      SecurityGroup |-> nil,
      SourceGroup   |-> nil,
      Egress        |-> nil,
      CIDR          |-> nil,
      FromPort      |-> nil,
      ToPort        |-> nil,
      Protocol      |-> nil ]

EgressRule ==
    [SecurityGroupRule EXCEPT
        !.Name          = s("api-elb-egress"),
        !.SecurityGroup = s(LinkToELBSecurityGroup("api")),
        !.Egress        = s(TRUE),
        !.CIDR          = s("0.0.0.0/0")]

IngressRuleSharedName(cidr) ==
    [SecurityGroupRule EXCEPT
        !.Name          = s("https-api-elb-"),
        !.SecurityGroup = s(LinkToELBSecurityGroup("api")),
        !.CIDR          = s(cidr),
        !.FromPort      = i64(HTTPSPort),
        !.ToPort        = i64(HTTPSPort),
        !.Protocol      = s("tcp")]

IngressRule(cidr) ==
    [SecurityGroupRule EXCEPT
        !.Name          = s("https-api-elb-" \o cidr),
        !.SecurityGroup = s(LinkToELBSecurityGroup("api")),
        !.CIDR          = s(cidr),
        !.FromPort      = i64(HTTPSPort),
        !.ToPort        = i64(HTTPSPort),
        !.Protocol      = s("tcp")]

MasterRule ==
    [SecurityGroupRule EXCEPT
        !.Name          = s("https-elb-to-master"),
        !.SecurityGroup = s(LinkToSecurityGroup(InstanceGroupRoleMaster)),
        !.SourceGroup   = s(LinkToELBSecurityGroup("api")),
        !.FromPort      = i64(HTTPSPort),
        !.ToPort        = i64(HTTPSPort),
        !.Protocol      = s("tcp")]

LoadBalancerAttachment(ig) ==
    [ Task             |-> "LoadBalancerAttachment",
      Name             |-> s("api-" \o ig.Name),
      LoadBalancer     |-> LinkToELB("api"),
      AutoscalingGroup |-> LinkToAutoscalingGroup(ig) ]

-----------------------------------------------------------------------------
(* Build, one action per step *)

Return(e) ==
    /\ pc' = "returned"
    /\ err' = e

\* if !b.UseLoadBalancerForAPI() { return nil }; if lbSpec == nil { return nil }
Guard ==
    /\ pc = "guard"
    /\ IF Requested
       THEN pc' = "checkType" /\ err' = err
       ELSE Return(nil)
    /\ UNCHANGED <<inputs, KubernetesAPIAccess, locals, tasks, pass, prev>>

\* switch lbSpec.Type { ... default: return error }
CheckType ==
    /\ pc = "checkType"
    /\ IF HandledLoadBalancerType(lbSpec[1].Type)
       THEN pc' = "partition" /\ err' = err
       ELSE Return(s(<<"unhandled LoadBalancer type", lbSpec[1].Type>>))
    /\ idx' = 1
    /\ UNCHANGED <<inputs, KubernetesAPIAccess, subnetsByZone, pendingZones,
                   elbSubnets, tasks, pass, prev>>

\* for i := range b.Cluster.Spec.Subnets { ... }
PartitionSubnets ==
    /\ pc = "partition"
    /\ IF idx > Len(Subnets)
       THEN /\ pc' = "choose"
            /\ pendingZones' = DOMAIN subnetsByZone
            /\ UNCHANGED <<idx, subnetsByZone, err>>
       ELSE LET subnet == Subnets[idx]
                case == SubnetCase(subnet, lbSpec[1].Type)
            IN  /\ pendingZones' = pendingZones
                /\ CASE case = "continue" ->
                            /\ idx' = idx + 1
                            /\ UNCHANGED <<pc, subnetsByZone, err>>
                     [] case = "append" ->
                            /\ subnetsByZone' = AppendToZone(subnetsByZone, subnet)
                            /\ idx' = idx + 1
                            /\ UNCHANGED <<pc, err>>
                     [] OTHER ->
                            /\ Return(s(<<"subnet had unknown type",
                                          subnet.Name, subnet.Type>>))
                            /\ UNCHANGED <<idx, subnetsByZone>>
    /\ UNCHANGED <<inputs, KubernetesAPIAccess, elbSubnets, tasks, pass, prev>>

\* for zone, subnets := range subnetsByZone { ... }: Go visits the keys of a
\* map in an unspecified order, each key once.
ChooseSubnets ==
    /\ pc = "choose"
    /\ IF pendingZones = {}
       THEN /\ pc' = "elb"
            /\ UNCHANGED <<pendingZones, elbSubnets>>
       ELSE \E zone \in pendingZones :
                LET subnet == chooseBestSubnetForELB(zone, subnetsByZone[zone])
                IN  /\ elbSubnets' = Append(elbSubnets, LinkToSubnet(subnet))
                    /\ pendingZones' = pendingZones \ {zone}
                    /\ pc' = pc
    /\ UNCHANGED <<inputs, KubernetesAPIAccess, idx, subnetsByZone, tasks, err,
                   pass, prev>>

\* The load balancer descriptor, the second switch on lbSpec.Type, c.AddTask(elb)
BuildLoadBalancer ==
    /\ pc = "elb"
    /\ IF lbSpec[1].Type \in {LoadBalancerTypeInternal, LoadBalancerTypePublic}
       THEN /\ tasks' = AddTask(tasks, LoadBalancer(lbSpec[1], elbSubnets))
            /\ pc' = "securityGroup"
            /\ err' = err
       ELSE /\ Return(s(<<"unknown elb Type", lbSpec[1].Type>>))
            /\ tasks' = tasks
    /\ UNCHANGED <<inputs, KubernetesAPIAccess, locals, pass, prev>>

BuildSecurityGroup ==
    /\ pc = "securityGroup"
    /\ tasks' = AddTask(tasks, SecurityGroup)
    /\ pc' = "egress"
    /\ UNCHANGED <<inputs, KubernetesAPIAccess, locals, err, pass, prev>>

BuildEgressRule ==
    /\ pc = "egress"
    /\ tasks' = AddTask(tasks, EgressRule)
    /\ pc' = "ingress"
    /\ idx' = 1
    /\ UNCHANGED <<inputs, KubernetesAPIAccess, subnetsByZone, pendingZones,
                   elbSubnets, err, pass, prev>>

\* for _, cidr := range b.Cluster.Spec.KubernetesAPIAccess { ... }
BuildIngressRules ==
    /\ pc = "ingress"
    /\ IF idx > Len(KubernetesAPIAccess)
       THEN /\ pc' = "masterRule"
            /\ UNCHANGED <<idx, tasks>>
       ELSE /\ tasks' = AddTask(tasks, IngressRule(KubernetesAPIAccess[idx]))
            /\ idx' = idx + 1
            /\ pc' = pc
    /\ UNCHANGED <<inputs, KubernetesAPIAccess, subnetsByZone, pendingZones,
                   elbSubnets, err, pass, prev>>

BuildMasterRuleOmitted ==
    /\ pc = "masterRule"
    /\ pc' = "attach"
    /\ idx' = 1
    /\ UNCHANGED <<inputs, KubernetesAPIAccess, subnetsByZone, pendingZones,
                   elbSubnets, tasks, err, pass, prev>>

BuildMasterRule ==
    /\ pc = "masterRule"
    /\ tasks' = AddTask(tasks, MasterRule)
    /\ pc' = "attach"
    /\ idx' = 1
    /\ UNCHANGED <<inputs, KubernetesAPIAccess, subnetsByZone, pendingZones,
                   elbSubnets, err, pass, prev>>

\* for _, ig := range b.MasterInstanceGroups() { ... }; return nil
BuildAttachments ==
    /\ pc = "attach"
    /\ IF idx > Len(MasterInstanceGroups)
       THEN /\ Return(nil)
            /\ UNCHANGED <<idx, tasks>>
       ELSE /\ tasks' = AddTask(tasks, LoadBalancerAttachment(MasterInstanceGroups[idx]))
            /\ idx' = idx + 1
            /\ UNCHANGED <<pc, err>>
    /\ UNCHANGED <<inputs, KubernetesAPIAccess, subnetsByZone, pendingZones,
                   elbSubnets, pass, prev>>

\* The caller builds the same cluster again into a fresh context; the
\* API-access CIDRs are the same ones, possibly listed in another order.
Rebuild ==
    /\ pc = "returned"
    /\ pass = 1
    /\ prev' = [tasks |-> tasks, err |-> err, KubernetesAPIAccess |-> KubernetesAPIAccess]
    /\ KubernetesAPIAccess' \in PermutationsOf(KubernetesAPIAccess)
    /\ pass' = 2
    /\ pc' = "guard"
    /\ idx' = 1
    /\ subnetsByZone' = <<>>
    /\ pendingZones' = {}
    /\ elbSubnets' = <<>>
    /\ tasks' = <<>>
    /\ err' = nil
    /\ UNCHANGED inputs

-----------------------------------------------------------------------------
(* Specification *)

InitLocals ==
    /\ pc = "guard"
    /\ idx = 1
    /\ subnetsByZone = <<>>
    /\ pendingZones = {}
    /\ elbSubnets = <<>>
    /\ tasks = <<>>
    /\ err = nil
    /\ pass = 1
    /\ prev = [tasks |-> <<>>, err |-> nil, KubernetesAPIAccess |-> <<>>]

\* Clusters that vary in their subnets.
InitSubnets ==
    /\ useLoadBalancerForAPI \in BOOLEAN
    /\ lbSpec \in LoadBalancerSpecs({nil})
    /\ Subnets \in SubnetLists
    /\ KubernetesAPIAccess \in {<<"10.0.0.0/8">>}
    /\ masterInstanceGroups \in
            {<<>>, ScenarioInstanceGroups,
             << [Name |-> "master-a", Subnets |-> <<NameA, NameAB>>] >>}

\* Clusters that vary in their API-access CIDRs and master instance groups.
InitRules ==
    /\ useLoadBalancerForAPI \in BOOLEAN
    /\ lbSpec \in LoadBalancerSpecs({nil, i64(60)})
    /\ Subnets \in {ScenarioSubnets}
    /\ KubernetesAPIAccess \in SeqsUpTo(CIDRs, MaxCIDRs)
    /\ masterInstanceGroups \in InstanceGroupLists({<<NameB>>})

Init ==
    /\ InitSubnets \/ InitRules
    /\ InitLocals

Next ==
    \/ Guard
    \/ CheckType
    \/ PartitionSubnets
    \/ ChooseSubnets
    \/ BuildLoadBalancer
    \/ BuildSecurityGroup
    \/ BuildEgressRule
    \/ BuildIngressRules
    \/ BuildMasterRule
    \/ BuildAttachments
    \/ Rebuild

Spec == Init /\ [][Next]_vars

-----------------------------------------------------------------------------
(* Vocabulary of the properties, stated without the operators of the model *)

Returned == pc = "returned"

Succeeded == pc = "returned" /\ err = nil

LoadBalancerRequested == useLoadBalancerForAPI /\ lbSpec # nil

KnownSubnetTypes == {"Public", "Utility", "Private"}

Compatible(subnet, lbType) ==
    \/ lbType = "Public" /\ subnet.Type \in {"Public", "Utility"}
    \/ lbType = "Internal" /\ subnet.Type = "Private"

\* a is lexically smaller than b
LexSmaller(a, b) ==
    \E k \in 1..Len(b) :
        /\ k - 1 <= Len(a)
        /\ \A j \in 1..(k - 1) : a[j] = b[j]
        /\ \/ k = Len(a) + 1
           \/ k <= Len(a) /\ a[k] < b[k]

Preferred(subnet) ==
    \E k \in DOMAIN masterInstanceGroups :
        \E j \in DOMAIN masterInstanceGroups[k].Subnets :
            masterInstanceGroups[k].Subnets[j] = subnet.Name

ExpectedScore(subnet) ==
    (IF Preferred(subnet) THEN 1 ELSE 0) + (IF subnet.Type = "Utility" THEN 1 ELSE 0)

SubnetLink(subnet) == [Kind |-> "Subnet", Name |-> subnet.Name]

\* The zones have been visited: elbSubnets is final.
SubnetsChosen ==
    \/ pc \in {"elb", "securityGroup", "egress", "ingress", "masterRule", "attach"}
    \/ (Succeeded /\ LoadBalancerRequested)

IsPrefix(a, b) == Len(a) <= Len(b) /\ \A k \in DOMAIN a : a[k] = b[k]

IngressRuleNames(ts) ==
    {ts[k].Name : k \in {j \in DOMAIN ts :
        /\ ts[j].Task = "SecurityGroupRule"
        /\ ts[j].CIDR # nil
        /\ ts[j].Egress = nil}}

-----------------------------------------------------------------------------
(* C1 *)

\* C1: two Build passes over the same cluster specification produce the same
\* task sequence (names, fields, link targets, the order of the load
\* balancer's Subnets included) and the same error.
Determinism ==
    (pass = 2 /\ Returned /\ KubernetesAPIAccess = prev.KubernetesAPIAccess)
        => (tasks = prev.tasks /\ err = prev.err)

-----------------------------------------------------------------------------
(* C2 *)

\* C2: when UseLoadBalancerForAPI() is false or the load-balancer spec is
\* absent, Build goes from its guard straight to a return without error and
\* adds no task, whatever the subnets, CIDRs and instance groups are.
NoOpGuard ==
    (~useLoadBalancerForAPI \/ lbSpec = nil)
        => /\ pc \in {"guard", "returned"}
           /\ tasks = <<>>
           /\ err = nil

NoOpGuardWitness ==
    /\ Returned
    /\ ~useLoadBalancerForAPI
    /\ lbSpec # nil
    /\ \E k \in DOMAIN Subnets : Subnets[k].Type = "Bogus"
    /\ tasks = <<>>
    /\ err = nil

-----------------------------------------------------------------------------
(* C3 *)

\* C3: with the load balancer requested, a load-balancer type outside
\* {Internal, Public} or a subnet of a type outside {Public, Utility, Private}
\* at any position of the subnet list makes Build return an error, and no
\* task is added.
TypeRejection ==
    (/\ LoadBalancerRequested
     /\ \/ lbSpec[1].Type \notin {"Internal", "Public"}
        \/ \E k \in DOMAIN Subnets : Subnets[k].Type \notin KnownSubnetTypes)
        => /\ tasks = <<>>
           /\ Returned => err # nil

\* An unknown subnet type that follows a compatible and a filtered-out subnet.
TypeRejectionWitness ==
    /\ Returned
    /\ err # nil
    /\ LoadBalancerRequested
    /\ lbSpec[1].Type = "Public"
    /\ Len(Subnets) = 3
    /\ Subnets[1].Type = "Utility"
    /\ Subnets[2].Type = "Private"
    /\ Subnets[3].Type = "Bogus"
    /\ tasks = <<>>

-----------------------------------------------------------------------------
(* C4 *)

\* C4: after a successful Build with a load balancer requested, the load
\* balancer's Subnets holds exactly one link for every zone that has a
\* compatible subnet and none for other zones; every link names a subnet of
\* the cluster that has a compatible type; with no compatible subnet the list
\* is empty.
PerZoneSelection ==
    (Succeeded /\ LoadBalancerRequested) =>
        LET links  == tasks[1].Subnets
            lbType == lbSpec[1].Type
            InZone(zone) ==
                {k \in DOMAIN links :
                    \E j \in DOMAIN Subnets :
                        /\ SubnetLink(Subnets[j]) = links[k]
                        /\ Subnets[j].Zone = zone}
            HasCompatible(zone) ==
                \E j \in DOMAIN Subnets :
                    Subnets[j].Zone = zone /\ Compatible(Subnets[j], lbType)
        IN  /\ \A zone \in Zones :
                Cardinality(InZone(zone)) = IF HasCompatible(zone) THEN 1 ELSE 0
            /\ \A k \in DOMAIN links :
                \E j \in DOMAIN Subnets :
                    /\ SubnetLink(Subnets[j]) = links[k]
                    /\ Compatible(Subnets[j], lbType)
            /\ Len(links) = Cardinality({zone \in Zones : HasCompatible(zone)})

\* One zone with two compatible subnets, the other zone with an incompatible one.
PerZoneSelectionWitness ==
    /\ Succeeded
    /\ LoadBalancerRequested
    /\ Len(Subnets) = 3
    /\ Subnets[1].Zone = "us-east-1a" /\ Compatible(Subnets[1], lbSpec[1].Type)
    /\ Subnets[2].Zone = "us-east-1b" /\ ~Compatible(Subnets[2], lbSpec[1].Type)
    /\ Subnets[3].Zone = "us-east-1a" /\ Compatible(Subnets[3], lbSpec[1].Type)
    /\ Len(tasks[1].Subnets) = 1

-----------------------------------------------------------------------------
(* C5 *)

\* The candidate the tie-break rule names: no other candidate has a higher
\* score, or an equal score and a lexically smaller name.
TieBreakWinner(candidates) ==
    CHOOSE x \in Range(candidates) :
        \A y \in Range(candidates) \ {x} :
            \/ ExpectedScore(x) > ExpectedScore(y)
            \/ ExpectedScore(x) = ExpectedScore(y) /\ LexSmaller(x.Name, y.Name)

\* C5: for the candidates of a zone, chooseBestSubnetForELB returns the same
\* subnet for every permutation of the candidates, which among the
\* top-scoring ones is the one with the lexically smallest name, and that
\* subnet is the one linked to the load balancer; in the scenario of subnets A
\* (utility) and B (public, hosting a master) with a public load balancer, A is
\* the single subnet linked.
TieBreak ==
    /\ \A zone \in DOMAIN subnetsByZone :
            /\ \A p \in PermutationsOf(subnetsByZone[zone]) :
                    chooseBestSubnetForELB(zone, p) = TieBreakWinner(subnetsByZone[zone])
            /\ SubnetsChosen =>
                    \E k \in DOMAIN elbSubnets :
                        elbSubnets[k] = SubnetLink(TieBreakWinner(subnetsByZone[zone]))
    /\ (/\ Succeeded
        /\ LoadBalancerRequested
        /\ lbSpec[1].Type = "Public"
        /\ Subnets = ScenarioSubnets
        /\ masterInstanceGroups = ScenarioInstanceGroups)
            => tasks[1].Subnets = <<[Kind |-> "Subnet", Name |-> NameA]>>

\* Three candidates of equal score in one zone, the lexically smallest one last.
TieBreakWitness ==
    /\ Succeeded
    /\ LoadBalancerRequested
    /\ Len(Subnets) = 3
    /\ \A k \in 1..3 : Subnets[k].Zone = "us-east-1a" /\ Subnets[k].Type = "Private"
    /\ masterInstanceGroups = <<>>
    /\ Subnets[1].Name = NameB /\ Subnets[2].Name = NameAB /\ Subnets[3].Name = NameA
    /\ tasks[1].Subnets = <<[Kind |-> "Subnet", Name |-> NameA]>>

-----------------------------------------------------------------------------
(* C6 *)

\* C6: among two or more candidates of a zone, chooseBestSubnetForELB returns
\* a candidate of maximal score (preferred + utility), so both beats one beats
\* neither; a single candidate is returned whatever its score; the returned
\* subnet is the one linked to the load balancer.
ScoringMonotonicity ==
    \A zone \in DOMAIN subnetsByZone :
        LET candidates == subnetsByZone[zone]
            chosen     == chooseBestSubnetForELB(zone, candidates)
        IN  /\ chosen \in Range(candidates)
            /\ \A y \in Range(candidates) : ExpectedScore(chosen) >= ExpectedScore(y)
            /\ Len(candidates) = 1 => chosen = candidates[1]
            /\ SubnetsChosen =>
                    \E k \in DOMAIN elbSubnets : elbSubnets[k] = SubnetLink(chosen)

\* Candidates scoring 0, 1 and 2 in one zone, in ascending order of score.
ScoringMonotonicityWitness ==
    /\ Succeeded
    /\ LoadBalancerRequested
    /\ lbSpec[1].Type = "Public"
    /\ Len(Subnets) = 3
    /\ \A k \in 1..3 : Subnets[k].Zone = "us-east-1b"
    /\ ExpectedScore(Subnets[1]) = 0 /\ Subnets[1].Type = "Public"
    /\ ExpectedScore(Subnets[2]) = 1
    /\ ExpectedScore(Subnets[3]) = 2
    /\ tasks[1].Subnets = <<SubnetLink(Subnets[3])>>

-----------------------------------------------------------------------------
(* C7 *)

\* C7: the tasks one Build pass adds have names that are unique among the
\* tasks of the same type.
NameUniqueness ==
    \A i, j \in DOMAIN tasks :
        (i # j /\ tasks[i].Task = tasks[j].Task) => tasks[i].Name # tasks[j].Name

-----------------------------------------------------------------------------
(* C8 *)

\* C8: a successful Build adds, for every entry of KubernetesAPIAccess, one
\* ingress rule (tcp, 443-443, that CIDR, on the API load balancer's security
\* group); rules of equal CIDRs have equal names and rules of distinct CIDRs
\* distinct names; a pass over the same CIDRs in another order yields the
\* same set of rule names.
IdempotentCIDRNaming ==
    (Succeeded /\ LoadBalancerRequested) =>
        LET n == Len(KubernetesAPIAccess)
        IN  /\ Len(tasks) >= 3 + n
            /\ \A k \in 1..n :
                /\ tasks[3 + k].Task = "SecurityGroupRule"
                /\ tasks[3 + k].CIDR = <<KubernetesAPIAccess[k]>>
                /\ tasks[3 + k].Protocol = <<"tcp">>
                /\ tasks[3 + k].FromPort = <<443>>
                /\ tasks[3 + k].ToPort = <<443>>
                /\ tasks[3 + k].Egress = nil
                /\ tasks[3 + k].SecurityGroup =
                        <<[Kind |-> "SecurityGroup", Name |-> "api-elb." \o ClusterName]>>
            /\ \A j, k \in 1..n :
                (KubernetesAPIAccess[j] = KubernetesAPIAccess[k])
                    <=> (tasks[3 + j].Name = tasks[3 + k].Name)
            /\ Cardinality(IngressRuleNames(tasks)) = Cardinality(Range(KubernetesAPIAccess))
            /\ (pass = 2 /\ prev.err = nil) =>
                    IngressRuleNames(tasks) = IngressRuleNames(prev.tasks)

\* The second pass ran with the two CIDRs in the other order.
IdempotentCIDRNamingWitness ==
    /\ Succeeded
    /\ LoadBalancerRequested
    /\ pass = 2
    /\ prev.KubernetesAPIAccess = <<"10.0.0.0/8", "192.168.1.0/24">>
    /\ KubernetesAPIAccess = <<"192.168.1.0/24", "10.0.0.0/8">>
    /\ Cardinality(IngressRuleNames(tasks)) = 2

-----------------------------------------------------------------------------
(* C9 *)

ExpectedShape ==
    LET n == Len(KubernetesAPIAccess)
        m == Len(masterInstanceGroups)
    IN  /\ Len(tasks) = 4 + n + m
        /\ tasks[1].Task = "LoadBalancer"
        /\ tasks[1].Name = <<"api." \o ClusterName>>
        /\ tasks[2].Task = "SecurityGroup"
        /\ tasks[3].Task = "SecurityGroupRule" /\ tasks[3].Egress = <<TRUE>>
        /\ \A k \in 1..n :
            /\ tasks[3 + k].Task = "SecurityGroupRule"
            /\ tasks[3 + k].CIDR = <<KubernetesAPIAccess[k]>>
            /\ tasks[3 + k].Egress = nil
        /\ tasks[4 + n].Task = "SecurityGroupRule"
        /\ tasks[4 + n].CIDR = nil
        /\ tasks[4 + n].SourceGroup # nil
        /\ \A k \in 1..m :
            /\ tasks[4 + n + k].Task = "LoadBalancerAttachment"
            /\ tasks[4 + n + k].Name = <<"api-" \o masterInstanceGroups[k].Name>>
            /\ tasks[4 + n + k].AutoscalingGroup.Name =
                    masterInstanceGroups[k].Name \o "." \o ClusterName

\* C9: a Build that succeeds with a load balancer requested has added, in
\* this order, one load-balancer task, one security group, one egress rule,
\* one ingress rule per CIDR in list order, one load-balancer-to-master rule
\* and one attachment per master instance group, 4 + |CIDRs| + |groups| tasks
\* in all; and within a pass every step leaves the tasks added so far in place.
ShapeOfPass ==
    /\ []((Succeeded /\ LoadBalancerRequested) => ExpectedShape)
    /\ [][pass' = pass => IsPrefix(tasks, tasks')]_vars

ShapeOfPassWitness ==
    /\ Succeeded
    /\ LoadBalancerRequested
    /\ Len(KubernetesAPIAccess) = 2
    /\ Len(masterInstanceGroups) = 2
    /\ Len(tasks) = 8

-----------------------------------------------------------------------------
(* C10 *)

\* C10: Build returns an error only before its first AddTask: an error leaves
\* the task collection as it was, the error is never the one of the second
\* type check, which is reached only with a handled type, and a pass that has
\* added a task returns success.
AllOrNothing ==
    /\ err # nil =>
            /\ tasks = <<>>
            /\ err[1][1] \in {"unhandled LoadBalancer type", "subnet had unknown type"}
    /\ pc = "elb" => lbSpec[1].Type \in {"Internal", "Public"}
    /\ (tasks # <<>> /\ Returned) => err = nil

\* The error of the subnet loop, returned after subnets were grouped.
AllOrNothingWitness ==
    /\ Returned
    /\ err # nil
    /\ err[1][1] = "subnet had unknown type"
    /\ subnetsByZone # <<>>
    /\ tasks = <<>>

====
